---- MODULE Spec2Model ----
(***************************************************************************)
(* A model of sat_pred/ssim.py: the Gaussian kernel builder and the SSIM3D *)
(* module (constructor and forward).                                       *)
(*                                                                         *)
(* Numbers are exact rationals <<n, d>> (d > 0, lowest terms).  Tensors    *)
(* are records [shape, data] over five axes [batch, channel, time, height, *)
(* width].  Python values carry their run-time type, because the           *)
(* constructor dispatches on isinstance.                                   *)
(***************************************************************************)
EXTENDS Integers, Sequences, FiniteSets

(***************************************************************************)
(* Bounds of the model.                                                    *)
(***************************************************************************)
\* largest kernel extent per spatial axis
MaxKernel == 3
\* largest number of elements of one input tensor
MaxElems == 3
\* largest pixel value of an input tensor
MaxPix == 2
\* threads that share one engine
NumThreads == 2

(***************************************************************************)
(* Exact rational arithmetic.                                              *)
(***************************************************************************)
Abs(n) == IF n < 0 THEN -n ELSE n

RECURSIVE GCD(_, _)
GCD(a, b) == IF b = 0 THEN a ELSE GCD(b, a % b)

\* lowest terms, positive denominator
Norm(r) ==
    LET g == GCD(Abs(r[1]), Abs(r[2]))
        s == IF r[2] < 0 THEN -1 ELSE 1
    IN  IF r[1] = 0 THEN <<0, 1>> ELSE <<s * (r[1] \div g), s * (r[2] \div g)>>

R(n) == <<n, 1>>

RAdd(a, b) ==
    LET g == GCD(a[2], b[2])
    IN  Norm(<<a[1] * (b[2] \div g) + b[1] * (a[2] \div g), (a[2] \div g) * b[2]>>)

RNeg(a) == <<-a[1], a[2]>>

RSub(a, b) == RAdd(a, RNeg(b))

RMul(a, b) ==
    LET g1 == GCD(Abs(a[1]), b[2])
        g2 == GCD(Abs(b[1]), a[2])
    IN  IF a[1] = 0 \/ b[1] = 0 THEN <<0, 1>>
        ELSE <<(a[1] \div g1) * (b[1] \div g2), (a[2] \div g2) * (b[2] \div g1)>>

\* the float a division by zero returns is not a number of the model
NaN == <<0, 0>>

RDiv(a, b) == IF b[1] = 0 THEN NaN ELSE RMul(a, Norm(<<b[2], b[1]>>))

RGt(a, b) == a[1] * b[2] > b[1] * a[2]

\* floor of a rational
Floor(a) == a[1] \div a[2]

(***************************************************************************)
(* Python values with their run-time type.                                 *)
(***************************************************************************)
PyInt(n) == [type |-> "int", val |-> R(n)]

PyFloat(n, d) == [type |-> "float", val |-> Norm(<<n, d>>)]

PyList(s) == [type |-> "list", items |-> s]

\* isinstance(v, int), isinstance(v, float), isinstance(v, Sequence)
IsInt(v) == v.type = "int"

IsFloat(v) == v.type = "float"

IsSequence(v) == v.type = "list"

\* an exception raised at a line of ssim.py
Raise(kind, line) == [status |-> kind, line |-> line]

\* Python's None
None == [status |-> "None"]

Raised(v) == "status" \in DOMAIN v /\ v.status \notin {"ok", "None"}

(***************************************************************************)
(* torch primitives used by the kernel builder.                            *)
(***************************************************************************)
RECURSIVE SumSeq(_)
SumSeq(s) == IF s = <<>> THEN R(0) ELSE RAdd(s[1], SumSeq(Tail(s)))

\* torch.linspace(start, end, steps): steps evenly spaced points, ends included
linspace(start, end, steps) ==
    [i \in 1..steps |->
        IF steps = 1 THEN start
        ELSE RAdd(start, RMul(<<i - 1, steps - 1>>, RSub(end, start)))]

\* resolution of the value torch.exp returns: results are multiples of
\* 1 / ExpScale, as a float result is a multiple of its unit in the last place
ExpScale == 4

\* torch.exp of a non-positive argument q = -p, in fixed point: e^-p is
\* evaluated as 1 / (1 + p + p^2/2) and rounded to the nearest 1/ExpScale
exp(q) ==
    LET p == RNeg(q)
        den == RAdd(R(1), RAdd(p, RMul(<<1, 2>>, RMul(p, p))))
        v == RDiv(R(1), den)
    IN  Norm(<<Floor(RAdd(RMul(R(ExpScale), v), <<1, 2>>)), ExpScale>>)

(***************************************************************************)
(* create_1d_gaussian_kernel(kernel_size, sigma)                           *)
(***************************************************************************)
create_1d_gaussian_kernel(kernel_size, sigma) ==
    LET ksize_half == RMul(R(kernel_size - 1), <<1, 2>>)
        kernel == linspace(RNeg(ksize_half), ksize_half, kernel_size)
        gauss == [i \in 1..kernel_size |->
                    LET q == RDiv(kernel[i], sigma)
                    IN  exp(RMul(<<-1, 2>>, RMul(q, q)))]
        total == SumSeq(gauss)
    IN  [i \in 1..kernel_size |-> RDiv(gauss[i], total)]

(***************************************************************************)
(* create_2d_gaussian_kernel(kernel_size, sigma): a matrix, kernel[i][j],  *)
(* or the TypeError of subscripting a scalar that was not resolved.        *)
(***************************************************************************)
\* lines 101-102: an int becomes [v, v]; anything else is left as it is
ResolveKernelSize2D(kernel_size) ==
    IF IsInt(kernel_size) THEN PyList(<<kernel_size, kernel_size>>) ELSE kernel_size

\* lines 104-105: a float becomes [v, v]; anything else is left as it is
ResolveSigma2D(sigma) ==
    IF IsFloat(sigma) THEN PyList(<<sigma, sigma>>) ELSE sigma

create_2d_gaussian_kernel(kernel_size0, sigma0) ==
    LET kernel_size == ResolveKernelSize2D(kernel_size0)
        sigma == ResolveSigma2D(sigma0)
    IN  IF ~IsSequence(kernel_size) \/ ~IsSequence(sigma)
        THEN Raise("TypeError", 107)
        ELSE LET kernel_x == create_1d_gaussian_kernel(
                                 kernel_size.items[1].val[1], sigma.items[1].val)
                 kernel_y == create_1d_gaussian_kernel(
                                 kernel_size.items[2].val[1], sigma.items[2].val)
             IN  [status |-> "ok",
                  kernel |-> [i \in 1..Len(kernel_x) |->
                                [j \in 1..Len(kernel_y) |->
                                    RMul(kernel_x[i], kernel_y[j])]]]

(***************************************************************************)
(* SSIM3D.__init__(kernel_size, sigma, k1, k2, data_range): the engine, or *)
(* the exception the constructor raises.                                   *)
(***************************************************************************)
\* lines 141-144
ResolveKernelSize(kernel_size) ==
    IF IsInt(kernel_size) THEN PyList(<<kernel_size, kernel_size>>) ELSE kernel_size

\* lines 146-149
ResolveSigma(sigma) ==
    IF IsFloat(sigma) THEN PyList(<<sigma, sigma>>) ELSE sigma

\* line 159: [0,] + [(k - 1) // 2 for k in kernel_size]
Pad(kernel_size) ==
    <<0>> \o [i \in 1..Len(kernel_size.items) |->
                (kernel_size.items[i].val[1] - 1) \div 2]

\* a constructor that forgets the assert on k2
AssertsForgetK2(k1, k2, data_range) ==
    IF ~RGt(data_range.val, R(0)) THEN Raise("AssertionError", 137)
    ELSE IF ~RGt(k1.val, R(0)) THEN Raise("AssertionError", 138)
    ELSE None

\* lines 137-139: the three asserts
Asserts(k1, k2, data_range) ==
    IF ~RGt(data_range.val, R(0)) THEN Raise("AssertionError", 137)
    ELSE IF ~RGt(k1.val, R(0)) THEN Raise("AssertionError", 138)
    ELSE IF ~RGt(k2.val, R(0)) THEN Raise("AssertionError", 139)
    ELSE None

\* a stability constant that forgets data_range: k ** 2
StabilityConstantUnscaled(k, data_range) == RMul(k.val, k.val)

\* lines 151-152: (k * data_range) ** 2
StabilityConstant(k, data_range) ==
    RMul(RMul(k.val, data_range.val), RMul(k.val, data_range.val))

SSIM3D(kernel_size0, sigma0, k1, k2, data_range) ==
    LET asserted == Asserts(k1, k2, data_range)
        kernel_size == ResolveKernelSize(kernel_size0)
        sigma == ResolveSigma(sigma0)
        built == create_2d_gaussian_kernel(kernel_size, sigma)
    IN  IF Raised(asserted) THEN asserted
        ELSE IF Raised(built) THEN built
        ELSE [status |-> "ok",
              c1 |-> StabilityConstant(k1, data_range),
              c2 |-> StabilityConstant(k2, data_range),
              kernel |-> built.kernel,
              pad |-> Pad(kernel_size)]

(***************************************************************************)
(* Tensors: [shape |-> <<B, C, T, H, W>>, data |-> [Idx(shape) -> number]] *)
(***************************************************************************)
Axes == 1..5

Idx(shape) ==
    (1..shape[1]) \X (1..shape[2]) \X (1..shape[3]) \X (1..shape[4]) \X (1..shape[5])

\* torch broadcasting of two 5-axis shapes
Broadcastable(s1, s2) == \A a \in Axes : s1[a] = s2[a] \/ s1[a] = 1 \/ s2[a] = 1

BroadcastShape(s1, s2) == [a \in Axes |-> IF s1[a] = 1 THEN s2[a] ELSE s1[a]]

\* the element of a tensor of shape s that index i of the broadcast reads
Clamp(i, s) == [a \in Axes |-> IF s[a] = 1 THEN 1 ELSE i[a]]

\* the arithmetic of one element: + - * /
Arith(op, u, v) ==
    CASE op = "add" -> RAdd(u, v)
      [] op = "sub" -> RSub(u, v)
      [] op = "mul" -> RMul(u, v)
      [] op = "div" -> RDiv(u, v)

\* an elementwise binary operation of two tensors, or the RuntimeError of
\* shapes that do not broadcast
Elementwise(op, a, b, line) ==
    IF Raised(a) THEN a
    ELSE IF Raised(b) THEN b
    ELSE IF ~Broadcastable(a.shape, b.shape) THEN Raise("RuntimeError", line)
    ELSE LET shape == BroadcastShape(a.shape, b.shape)
         IN  [shape |-> shape,
              data |-> [i \in Idx(shape) |->
                          Arith(op, a.data[Clamp(i, a.shape)], b.data[Clamp(i, b.shape)])]]

\* an elementwise operation of a tensor and a Python scalar
Scalar(op, a, c) ==
    IF Raised(a) THEN a
    ELSE [shape |-> a.shape, data |-> [i \in Idx(a.shape) |-> Arith(op, a.data[i], c)]]

\* x ** 2
Square(a) ==
    IF Raised(a) THEN a
    ELSE [shape |-> a.shape, data |-> [i \in Idx(a.shape) |-> RMul(a.data[i], a.data[i])]]

RECURSIVE SumSizes(_)
SumSizes(ts) == IF ts = <<>> THEN 0 ELSE ts[1].shape[1] + SumSizes(Tail(ts))

\* the tensor of ts and the batch index in it that batch index n of the
\* concatenation reads
RECURSIVE CatSource(_, _)
CatSource(ts, n) ==
    IF n <= ts[1].shape[1] THEN <<ts[1], n>> ELSE CatSource(Tail(ts), n - ts[1].shape[1])

\* torch.cat(ts) along axis 0: every other axis must agree
cat(ts, line) ==
    IF \E k \in 1..Len(ts) : \E a \in 2..5 : ts[k].shape[a] # ts[1].shape[a]
    THEN Raise("RuntimeError", line)
    ELSE LET shape == [ts[1].shape EXCEPT ![1] = SumSizes(ts)]
         IN  [shape |-> shape,
              data |-> [i \in Idx(shape) |->
                          LET src == CatSource(ts, i[1])
                          IN  src[1].data[<<src[2], i[2], i[3], i[4], i[5]>>]]]

\* self.kernel.expand(num_channels, 1, 1, -1, -1): the conv3d weight, of shape
\* [num_channels, 1, 1, kh, kw], every channel reading the one stored kernel
expand(kernel, num_channels) ==
    LET shape == <<num_channels, 1, 1, Len(kernel), Len(kernel[1])>>
    IN  [shape |-> shape, data |-> [i \in Idx(shape) |-> kernel[i[4]][i[5]]]]

RECURSIVE SumOver(_, _)
SumOver(S, f) ==
    IF S = {} THEN R(0)
    ELSE LET e == CHOOSE e \in S : TRUE IN RAdd(f[e], SumOver(S \ {e}, f))

\* F.conv3d(input, weight, padding=padding, groups=groups): cross-correlation
\* with zero padding, stride 1; weight has shape [Cout, Cin/groups, kt, kh, kw]
conv3d(input, weight, padding, groups, line) ==
    LET Cin == input.shape[2]
        Cout == weight.shape[1]
        kt == weight.shape[3]
        kh == weight.shape[4]
        kw == weight.shape[5]
        To == input.shape[3] + 2 * padding[1] - kt + 1
        Ho == input.shape[4] + 2 * padding[2] - kh + 1
        Wo == input.shape[5] + 2 * padding[3] - kw + 1
    IN  IF \/ Cin # groups * weight.shape[2]
           \/ Cout % groups # 0
           \/ To < 1 \/ Ho < 1 \/ Wo < 1
        THEN Raise("RuntimeError", line)
        ELSE LET shape == <<input.shape[1], Cout, To, Ho, Wo>>
                 \* the input channel that weight channel ic of output channel oc reads
                 InCh(oc, ic) == ((oc - 1) \div (Cout \div groups)) * weight.shape[2] + ic
                 Taps == (1..weight.shape[2]) \X (1..kt) \X (1..kh) \X (1..kw)
                 At(i, tap) ==
                     LET t == i[3] + tap[2] - 1 - padding[1]
                         h == i[4] + tap[3] - 1 - padding[2]
                         w == i[5] + tap[4] - 1 - padding[3]
                     IN  IF /\ t \in 1..input.shape[3]
                            /\ h \in 1..input.shape[4]
                            /\ w \in 1..input.shape[5]
                         THEN RMul(weight.data[<<i[2], tap[1], tap[2], tap[3], tap[4]>>],
                                   input.data[<<i[1], InCh(i[2], tap[1]), t, h, w>>])
                         ELSE R(0)
             IN  [shape |-> shape,
                  data |-> [i \in Idx(shape) |->
                              SumOver(Taps, [tap \in Taps |-> At(i, tap)])]]

\* t[lo:hi] along axis 0 (0-based, end excluded, clipped to the tensor)
Slice(t, lo, hi) ==
    LET n == t.shape[1]
        l == IF lo > n THEN n ELSE lo
        h == IF hi > n THEN n ELSE hi
        size == IF h > l THEN h - l ELSE 0
        shape == [t.shape EXCEPT ![1] = size]
    IN  [shape |-> shape,
         data |-> [i \in Idx(shape) |-> t.data[<<i[1] + l, i[2], i[3], i[4], i[5]>>]]]

(***************************************************************************)
(* SSIM3D.forward(x, y), statement by statement.                           *)
(***************************************************************************)
\* line 181: torch.cat([x, y, x**2, y**2, x*y])
ForwardCat(x, y) ==
    LET xy == Elementwise("mul", x, y, 181)
    IN  IF Raised(xy) THEN xy
        ELSE cat(<<x, y, Square(x), Square(y), xy>>, 181)

\* lines 174-182: the kernel expanded over the channels of x, and the one
\* grouped convolution of the five stacked volumes
ForwardConv(self, x, kernal_inputs) ==
    LET num_channels == x.shape[2]
        kernel == expand(self.kernel, num_channels)
    IN  conv3d(kernal_inputs, kernel, self.pad, num_channels, 182)

\* a split that forgets to scale the offset: kernel_outputs[i:i+batch_size]
SplitUnscaled(kernel_outputs, batch_size, i) ==
    Slice(kernel_outputs, i, i + batch_size)

\* line 185: kernel_outputs[i*batch_size:(i+1)*batch_size], i = 0..4
Split(kernel_outputs, batch_size, i) ==
    Slice(kernel_outputs, i * batch_size, (i + 1) * batch_size)

\* lines 187-188: uxx - ux * ux
Variance(uxx, ux, line) == Elementwise("sub", uxx, Elementwise("mul", ux, ux, line), line)

\* line 189: uxy - ux * uy
Covariance(uxy, ux, uy) == Elementwise("sub", uxy, Elementwise("mul", ux, uy, 189), 189)

\* line 191: 2 * ux * uy + self.c1
A1(ux, uy, c1) ==
    Scalar("add", Elementwise("mul", Scalar("mul", ux, R(2)), uy, 191), c1)

\* a numerator that forgets the factor: vxy + self.c2
A2NoDouble(vxy, c2) == Scalar("add", vxy, c2)

\* line 192: 2 * vxy + self.c2
A2(vxy, c2) == Scalar("add", Scalar("mul", vxy, R(2)), c2)

\* a denominator that forgets one square: ux**2 + uy + self.c1
B1Asymmetric(ux, uy, c1) == Scalar("add", Elementwise("add", Square(ux), uy, 193), c1)

\* line 193: ux**2 + uy**2 + self.c1
B1(ux, uy, c1) == Scalar("add", Elementwise("add", Square(ux), Square(uy), 193), c1)

\* line 194: vx + vy + self.c2
B2(vx, vy, c2) == Scalar("add", Elementwise("add", vx, vy, 194), c2)

\* the first statement that raised, or the value of the last
FirstRaised(stmts) ==
    IF \E k \in 1..Len(stmts) : Raised(stmts[k])
    THEN stmts[CHOOSE k \in 1..Len(stmts) :
                  Raised(stmts[k]) /\ \A j \in 1..(k - 1) : ~Raised(stmts[j])]
    ELSE stmts[Len(stmts)]

\* lines 185-196
ForwardSsim(self, x, kernel_outputs) ==
    LET batch_size == x.shape[1]
        ux == Split(kernel_outputs, batch_size, 0)
        uy == Split(kernel_outputs, batch_size, 1)
        uxx == Split(kernel_outputs, batch_size, 2)
        uyy == Split(kernel_outputs, batch_size, 3)
        uxy == Split(kernel_outputs, batch_size, 4)
        vx == Variance(uxx, ux, 187)
        vy == Variance(uyy, uy, 188)
        vxy == Covariance(uxy, ux, uy)
        a1 == A1(ux, uy, self.c1)
        a2 == A2(vxy, self.c2)
        b1 == B1(ux, uy, self.c1)
        b2 == B2(vx, vy, self.c2)
        ret == Elementwise("div", Elementwise("mul", a1, a2, 196),
                           Elementwise("mul", b1, b2, 196), 196)
    IN  FirstRaised(<<vx, vy, vxy, a1, a2, b1, b2, ret>>)

\* the whole call: the map, or the exception it raises
forward(self, x, y) ==
    LET kernal_inputs == ForwardCat(x, y)
        kernel_outputs == IF Raised(kernal_inputs) THEN kernal_inputs
                          ELSE ForwardConv(self, x, kernal_inputs)
    IN  IF Raised(kernel_outputs) THEN kernel_outputs
        ELSE ForwardSsim(self, x, kernel_outputs)

(***************************************************************************)
(* The arguments and inputs the model draws from.                          *)
(***************************************************************************)
Config(kernel_size, sigma, k1, k2, data_range) ==
    [kernel_size |-> kernel_size, sigma |-> sigma,
     k1 |-> k1, k2 |-> k2, data_range |-> data_range]

\* kernel_size: int | list[int]
KernelSizeArgs ==
    {PyInt(k) : k \in 1..MaxKernel}
    \cup {PyList(<<PyInt(1), PyInt(k)>>) : k \in 2..MaxKernel}
    \cup {PyList(<<PyInt(MaxKernel), PyInt(1)>>)}

\* sigma: float | list[float]; an int is a value a float parameter accepts
\* (data_range: float = 1 is declared that way on line 120)
SigmaArgs ==
    {PyFloat(3, 2), PyInt(2), PyList(<<PyFloat(1, 1), PyFloat(3, 2)>>)}

K1Args == {PyFloat(1, 2), PyFloat(0, 1)}

K2Args == {PyFloat(3, 2), PyFloat(-1, 2)}

DataRangeArgs == {PyInt(1), PyInt(2), PyInt(0), PyFloat(-1, 1)}

\* every combination of the arguments above
AllConfigs ==
    {Config(ks, sg, k1, k2, dr) :
        ks \in KernelSizeArgs, sg \in SigmaArgs, k1 \in K1Args, k2 \in K2Args,
        dr \in DataRangeArgs}

\* the configurations the value claims are checked on: every scalar kernel
\* size with sigma = 1.5 and data_range = 1 (the defaults of lines 117 and
\* 120), and the kernels of one row with a sigma per axis
ValueConfigs ==
    {Config(PyInt(k), PyFloat(3, 2), PyFloat(1, 2), PyFloat(3, 2), PyInt(1)) :
        k \in 1..MaxKernel}
    \cup {Config(PyList(<<PyInt(1), PyInt(k)>>),
                 PyList(<<PyFloat(1, 1), PyFloat(3, 2)>>),
                 PyFloat(1, 2), PyFloat(3, 2), PyInt(1)) : k \in 2..MaxKernel}

PixelValues == {R(v) : v \in 0..MaxPix}

Product(shape) == shape[1] * shape[2] * shape[3] * shape[4] * shape[5]

Shapes ==
    {s \in (1..MaxElems) \X (1..MaxElems) \X (1..MaxElems) \X (1..MaxElems) \X (1..MaxElems) :
        Product(s) <= MaxElems}

Tensors(shape) == {[shape |-> shape, data |-> d] : d \in [Idx(shape) -> PixelValues]}

Full(shape, v) == [shape |-> shape, data |-> [i \in Idx(shape) |-> v]]

UnitShape == <<1, 1, 1, 1, 1>>

\* torch.ones(sx), torch.zeros(sy) for every two shapes, equal or not
ShapeInputs == {<<Full(sx, R(1)), Full(sy, R(0))>> : sx \in Shapes, sy \in Shapes}

\* every two tensors of one shape of at most two elements
DenseInputs ==
    UNION {Tensors(s) \X Tensors(s) : s \in {s \in Shapes : Product(s) <= 2}}

\* one-pixel tensors, black or white: the calls of concurrent threads
SharedInputs ==
    {Full(UnitShape, R(0)), Full(UnitShape, R(MaxPix))}
    \X {Full(UnitShape, R(0)), Full(UnitShape, R(MaxPix))}

Threads == 1..NumThreads

(***************************************************************************)
(* The state: one engine, and the frame of each thread's forward call.     *)
(***************************************************************************)
VARIABLES
    args,            \* the arguments the constructor or the builder was called with
    resolved,        \* kernel_size and sigma after lines 141-149 (101-105)
    engine,          \* the SSIM3D module: c1, c2, kernel, pad; or the exception
    gaussian,        \* the result of a direct create_2d_gaussian_kernel call
    callers,         \* the threads that call the engine
    pc,              \* per thread: idle, cat, conv, ssim, returned, raised
    x,               \* per thread: the prediction of the call
    y,               \* per thread: the target of the call
    kernal_inputs,   \* per thread: the local of line 181
    kernel_outputs,  \* per thread: the local of line 182
    result           \* per thread: the returned map or the raised exception

vars == <<args, resolved, engine, gaussian, callers, pc, x, y,
          kernal_inputs, kernel_outputs, result>>

frames == <<pc, x, y, kernal_inputs, kernel_outputs, result>>

InitWith(ts) ==
    /\ args = None
    /\ resolved = None
    /\ engine = None
    /\ gaussian = None
    /\ callers = ts
    /\ pc = [t \in Threads |-> "idle"]
    /\ x = [t \in Threads |-> None]
    /\ y = [t \in Threads |-> None]
    /\ kernal_inputs = [t \in Threads |-> None]
    /\ kernel_outputs = [t \in Threads |-> None]
    /\ result = [t \in Threads |-> None]

\* one calling thread
Init == InitWith({1})

\* every thread calls the one engine
InitThreads == InitWith(Threads)

\* create_2d_gaussian_kernel called on its own
Build2D ==
    /\ engine = None /\ gaussian = None
    /\ \E kernel_size \in KernelSizeArgs, sigma \in SigmaArgs :
        /\ args' = [kernel_size |-> kernel_size, sigma |-> sigma]
        /\ resolved' = [kernel_size |-> ResolveKernelSize2D(kernel_size),
                        sigma |-> ResolveSigma2D(sigma)]
        /\ gaussian' = create_2d_gaussian_kernel(kernel_size, sigma)
    /\ UNCHANGED <<engine, callers, frames>>

\* SSIM3D(kernel_size, sigma, k1, k2, data_range), the arguments from configs
Construct(configs) ==
    /\ engine = None /\ gaussian = None
    /\ \E c \in configs :
        LET self == SSIM3D(c.kernel_size, c.sigma, c.k1, c.k2, c.data_range)
        IN  /\ args' = c
            /\ engine' = self
            \* the locals of lines 141-149, which an assert that fails never reaches
            /\ resolved' = IF self.status = "AssertionError" THEN None
                           ELSE [kernel_size |-> ResolveKernelSize(c.kernel_size),
                                 sigma |-> ResolveSigma(c.sigma)]
    /\ UNCHANGED <<gaussian, callers, frames>>

\* thread t calls forward(x, y), the two tensors from inputs
Call(t, inputs) ==
    /\ engine.status = "ok"
    /\ t \in callers
    /\ pc[t] = "idle"
    /\ \E in \in inputs :
        /\ x' = [x EXCEPT ![t] = in[1]]
        /\ y' = [y EXCEPT ![t] = in[2]]
    /\ pc' = [pc EXCEPT ![t] = "cat"]
    /\ UNCHANGED <<args, resolved, engine, gaussian, callers,
                   kernal_inputs, kernel_outputs, result>>

\* line 181 with the squares taken in place: x.pow_(2) for x ** 2
CatInPlace(t) ==
    /\ pc[t] = "cat"
    /\ LET v == ForwardCat(x[t], y[t])
       IN  IF Raised(v)
           THEN /\ pc' = [pc EXCEPT ![t] = "raised"]
                /\ result' = [result EXCEPT ![t] = v]
                /\ UNCHANGED <<kernal_inputs, x>>
           ELSE /\ pc' = [pc EXCEPT ![t] = "conv"]
                /\ kernal_inputs' = [kernal_inputs EXCEPT ![t] = v]
                /\ x' = [x EXCEPT ![t] = Square(x[t])]
                /\ UNCHANGED result
    /\ UNCHANGED <<args, resolved, engine, gaussian, callers, y, kernel_outputs>>

\* line 181
Cat(t) ==
    /\ pc[t] = "cat"
    /\ LET v == ForwardCat(x[t], y[t])
       IN  IF Raised(v)
           THEN /\ pc' = [pc EXCEPT ![t] = "raised"]
                /\ result' = [result EXCEPT ![t] = v]
                /\ UNCHANGED kernal_inputs
           ELSE /\ pc' = [pc EXCEPT ![t] = "conv"]
                /\ kernal_inputs' = [kernal_inputs EXCEPT ![t] = v]
                /\ UNCHANGED result
    /\ UNCHANGED <<args, resolved, engine, gaussian, callers, x, y, kernel_outputs>>

\* lines 174-183
Conv(t) ==
    /\ pc[t] = "conv"
    /\ LET v == ForwardConv(engine, x[t], kernal_inputs[t])
       IN  IF Raised(v)
           THEN /\ pc' = [pc EXCEPT ![t] = "raised"]
                /\ result' = [result EXCEPT ![t] = v]
                /\ UNCHANGED <<kernal_inputs, kernel_outputs>>
           ELSE /\ pc' = [pc EXCEPT ![t] = "ssim"]
                /\ kernel_outputs' = [kernel_outputs EXCEPT ![t] = v]
                /\ kernal_inputs' = [kernal_inputs EXCEPT ![t] = None]
                /\ UNCHANGED result
    /\ UNCHANGED <<args, resolved, engine, gaussian, callers, x, y>>

\* lines 185-196
Ssim(t) ==
    /\ pc[t] = "ssim"
    /\ LET v == ForwardSsim(engine, x[t], kernel_outputs[t])
       IN  /\ pc' = [pc EXCEPT ![t] = IF Raised(v) THEN "raised" ELSE "returned"]
           /\ result' = [result EXCEPT ![t] = v]
    /\ UNCHANGED <<args, resolved, engine, gaussian, callers, x, y,
                   kernal_inputs, kernel_outputs>>

\* the caller drops the frame and its result
Release(t) ==
    /\ pc[t] \in {"returned", "raised"}
    /\ pc' = [pc EXCEPT ![t] = "idle"]
    /\ x' = [x EXCEPT ![t] = None]
    /\ y' = [y EXCEPT ![t] = None]
    /\ kernal_inputs' = [kernal_inputs EXCEPT ![t] = None]
    /\ kernel_outputs' = [kernel_outputs EXCEPT ![t] = None]
    /\ result' = [result EXCEPT ![t] = None]
    /\ UNCHANGED <<args, resolved, engine, gaussian, callers>>

Step(t) == Cat(t) \/ Conv(t) \/ Ssim(t) \/ Release(t)

\* configuration and shapes: every configuration, tensors of every two shapes
Next ==
    \/ Build2D
    \/ Construct(AllConfigs)
    \/ \E t \in Threads : Call(t, ShapeInputs)
    \/ \E t \in Threads : Step(t)

Spec == Init /\ [][Next]_vars

\* values: every two tensors of one shape
NextValues ==
    \/ Construct(ValueConfigs)
    \/ \E t \in Threads : Call(t, DenseInputs)
    \/ \E t \in Threads : Step(t)

SpecValues == Init /\ [][NextValues]_vars

\* threads: every thread calls the one engine, the calls interleaved
NextThreads ==
    \/ Construct(ValueConfigs)
    \/ \E t \in Threads : Call(t, SharedInputs)
    \/ \E t \in Threads : Step(t)

SpecThreads == InitThreads /\ [][NextThreads]_vars

(***************************************************************************)
(* Claims about configuration and shapes, checked under Spec.              *)
(***************************************************************************)
Finished(t) == pc[t] \in {"returned", "raised"}

Constructed == engine # None

\* C1: forward fails fast whenever the shapes of prediction and target
\* differ in any axis: the call raises at line 181, before the convolution,
\* and never returns a map.
C1_MismatchFailsFast ==
    \A t \in Threads :
        (Finished(t) /\ x[t].shape # y[t].shape) =>
            /\ pc[t] = "raised"
            /\ result[t].line = 181
            /\ kernel_outputs[t] = None

NonPositive(v) == ~RGt(v.val, R(0))

\* C2: constructing the engine with data_range <= 0, k1 <= 0 or k2 <= 0
\* raises the AssertionError and yields no engine; an engine exists only
\* when all three are strictly positive.
C2_ConstructValidates ==
    Constructed =>
        /\ (NonPositive(args.data_range) \/ NonPositive(args.k1) \/ NonPositive(args.k2))
               => engine.status = "AssertionError"
        /\ engine.status = "ok" =>
               /\ RGt(args.data_range.val, R(0))
               /\ RGt(args.k1.val, R(0))
               /\ RGt(args.k2.val, R(0))

\* C2 witness: a constructor call with k2 <= 0 alone has raised
C2_Witness ==
    /\ Constructed
    /\ NonPositive(args.k2)
    /\ ~NonPositive(args.k1)
    /\ ~NonPositive(args.data_range)
    /\ engine.status = "AssertionError"

\* the kernel extent on the height and the width axis
KernelExtent(self) == <<Len(self.kernel), Len(self.kernel[1])>>

\* C3: for every configuration and two inputs of one shape [B, C, T, H, W]
\* with H and W at least the kernel size on that axis, forward returns a map
\* of exactly that shape.
C3_OutputShapeIsInputShape ==
    \A t \in Threads :
        (/\ Finished(t)
         /\ x[t].shape = y[t].shape
         /\ x[t].shape[4] >= KernelExtent(engine)[1]
         /\ x[t].shape[5] >= KernelExtent(engine)[2]) =>
            /\ pc[t] = "returned"
            /\ result[t].shape = x[t].shape

IsPair(v) == IsSequence(v) /\ Len(v.items) = 2

\* what a scalar or a pair is to be resolved to
AsPair(v) == IF IsSequence(v) THEN v ELSE PyList(<<v, v>>)

\* C4: kernel_size and sigma are always resolved to an ordered pair, a
\* scalar v to [v, v] and a pair kept as given, in the constructor and in
\* create_2d_gaussian_kernel.
C4_ResolvedToPairs ==
    resolved # None =>
        /\ IsPair(resolved.kernel_size)
        /\ IsPair(resolved.sigma)
        /\ resolved.kernel_size = AsPair(args.kernel_size)
        /\ resolved.sigma = AsPair(args.sigma)

(***************************************************************************)
(* Claims about the values of the map, checked under SpecValues.           *)
(***************************************************************************)
One == R(1)

\* a call has returned a map in which some element is not 1
ReturnedUnequal(t) ==
    /\ pc[t] = "returned"
    /\ \E i \in Idx(result[t].shape) : result[t].data[i] # One

\* C5: forward(x, x) returns a map in which every element equals 1, border
\* pixels included: numerator and denominator are equal and not zero.
C5_SelfSimilarityIsOne ==
    \A t \in Threads :
        (pc[t] = "returned" /\ x[t] = y[t]) =>
            \A i \in Idx(result[t].shape) : result[t].data[i] = One

\* C5 witness: a map returned for x = y, x not constant, windows reaching
\* into the zero padding
C5_Witness ==
    \E t \in Threads :
        /\ pc[t] = "returned"
        /\ x[t] = y[t]
        /\ \E i, j \in Idx(x[t].shape) : x[t].data[i] # x[t].data[j]
        /\ engine.pad[3] > 0

\* C6: forward(x, y) and forward(y, x) are the same map (or the same
\* exception) for every two inputs of one shape and every configuration.
C6_Symmetric ==
    \A t \in Threads :
        Finished(t) => result[t] = forward(engine, y[t], x[t])

\* C6 witness: a map, not all ones, returned for x # y
C6_Witness ==
    \E t \in Threads : ReturnedUnequal(t) /\ x[t] # y[t] /\ engine.pad[3] > 0

\* x * s
Scale(xt, s) == Scalar("mul", xt, s)

Scales == {<<2, 1>>, <<1, 2>>}

\* C7: the inputs scaled by a positive factor s, on an engine with
\* data_range = s and the other arguments unchanged, give at every element
\* the map of the unscaled inputs with data_range = 1.
C7_ScaleInvariant ==
    \A t \in Threads :
        (Finished(t) /\ args.data_range.val = One) =>
            \A s \in Scales :
                forward(SSIM3D(args.kernel_size, args.sigma, args.k1, args.k2,
                               [type |-> "float", val |-> s]),
                        Scale(x[t], s), Scale(y[t], s)) = result[t]

\* C7 witness: a map, not all ones, returned by an engine with data_range = 1
C7_Witness ==
    \E t \in Threads : ReturnedUnequal(t) /\ args.data_range.val = One

\* the rows (columns) of the input that the window of output row (column) o reads
Window(o, pad, extent) == (o - pad)..(o - pad + extent - 1)

\* the frame of xt at sample q[1], channel q[2], time q[3] alone, every pixel
\* outside the kernel window of output pixel (q[4], q[5]) set to 0
Local(self, xt, q) ==
    LET shape == <<1, 1, 1, xt.shape[4], xt.shape[5]>>
    IN  [shape |-> shape,
         data |-> [i \in Idx(shape) |->
                     IF /\ i[4] \in Window(q[4], self.pad[2], KernelExtent(self)[1])
                        /\ i[5] \in Window(q[5], self.pad[3], KernelExtent(self)[2])
                     THEN xt.data[<<q[1], q[2], q[3], i[4], i[5]>>]
                     ELSE R(0)]]

\* C10: the output element at (b, c, t, h, w) is a function of the two
\* inputs at sample b, channel c, time t within the kernel window around
\* (h, w) alone: it is the element the call returns at (h, w) for that frame
\* with everything outside the window blanked.
C10_ElementIsLocal ==
    \A t \in Threads :
        pc[t] = "returned" =>
            \A q \in Idx(result[t].shape) :
                forward(engine, Local(engine, x[t], q), Local(engine, y[t], q))
                    .data[<<1, 1, 1, q[4], q[5]>>] = result[t].data[q]

\* C10 witness: a map returned for inputs of several samples, channels or
\* time steps that differ from one to the other
C10_Witness ==
    \E t \in Threads :
        /\ pc[t] = "returned"
        /\ x[t].shape[1] * x[t].shape[2] * x[t].shape[3] > 1
        /\ \E i, j \in Idx(x[t].shape) : x[t].data[i] # x[t].data[j]
        /\ \E i, j \in Idx(result[t].shape) : result[t].data[i] # result[t].data[j]

(***************************************************************************)
(* The claim about threads, checked under SpecThreads.                     *)
(***************************************************************************)
\* C9: once constructed, the engine's kernel, c1, c2 and pad stay what the
\* constructor set, through every step of every thread; no step of a call
\* changes its prediction or target; and what a call returns or raises is
\* what forward gives on its own two inputs and the engine.
C9_EngineAndInputsFrozen ==
    [][/\ engine.status = "ok" => engine' = engine
       /\ engine'.status = "ok" =>
              engine' = SSIM3D(args'.kernel_size, args'.sigma, args'.k1, args'.k2,
                               args'.data_range)
       /\ \A t \in Threads :
              /\ (pc[t] # "idle" /\ pc'[t] # "idle") => (x'[t] = x[t] /\ y'[t] = y[t])
              /\ pc'[t] \in {"returned", "raised"} =>
                     result'[t] = forward(engine', x'[t], y'[t])]_vars

\* C9 witness: two threads inside forward at once, on different inputs, one
\* of them done and the other not yet past the convolution
C9_Witness ==
    \E t, u \in Threads :
        /\ t # u
        /\ pc[t] = "returned"
        /\ pc[u] = "conv"
        /\ x[t] # x[u]

====
